---- MODULE Spec2Model ----
(***************************************************************************)
(* A model of panacus' command driver (src/src/cli.rs, run) and of its two *)
(* GFA passes (src/src/io.rs, parse_graph_marginals, parse_gfa_nodecount). *)
(*                                                                         *)
(* Three specifications share the module:                                  *)
(*   SpecRun    the phases of cli::run and what each opens and writes      *)
(*   SpecIndex  the indexer pass, one action per GFA line                  *)
(*   SpecCount  the second pass, one action per GFA line                   *)
(***************************************************************************)
EXTENDS Integers, Sequences, FiniteSets, TLC

VARIABLES
    \* ---- cli::run ----
    params,        \* the parsed command line (Params)
    gfa,           \* the GFA file on disk: readable, number of S and P/W lines
    pc,            \* position of run
    result,        \* "none" while running, then "Ok" or the io::ErrorKind
    out,           \* lines written to the output sink, in order
    opened,        \* files opened so far, in order
    events,        \* phases executed so far, in order
    path_count,    \* graph_aux.path_segments.len() once the indexer ran
    n_groups,      \* abacus_aux.count_groups() once the resolver ran
    \* ---- io::parse_graph_marginals ----
    file,          \* the GFA stream as the buffers read_until(b'\n') yields
    index_edges,   \* the index_edges argument
    idx_pos,       \* lines consumed so far
    idx,           \* the locals of parse_graph_marginals and how far it got
    \* ---- io::parse_gfa_nodecount ----
    overflow_checks,  \* the build: TRUE panics on integer overflow, FALSE wraps
    graph_marginals,  \* node2id, node_len and path_segments.len() of the first pass
    subset_coords,    \* abacus_data.subset_coords: NoSubset or a list of PathSegments
    subset_map,       \* the subset_map built from it when the pass starts
    num_path,         \* the path index
    node_table,       \* the ItemTable: items and id_prefsum, per shard
    cnt_state,        \* "reading", "done" or "panicked"
    last,             \* history: the line read last and what it deposited
    pushed,           \* history: per shard, the number of items each path pushed
    \* ---- io::parse_bed ----
    bed_file,         \* the BED file as the rows the Csv reader yields
    bed_pos,          \* rows consumed so far
    bed,              \* the locals of parse_bed and how far it got
    \* ---- io::parse_groups ----
    grp_file,         \* the grouping file as the rows the Csv reader yields
    grp_pos,          \* rows consumed so far
    grp,              \* the locals of parse_groups, how far it got, what it returned
    \* ---- cli::parse_threshold_cli ----
    threshold_str,    \* the threshold_str argument
    require,          \* the require argument
    thr,              \* the locals of parse_threshold_cli, how far it got, what it returned
    \* ---- cli::run, the growth table ----
    hist_aux,         \* hist_aux.coverage and hist_aux.quorum
    growth,           \* the parallel map over the pairs, growths, and the table written
    \* ---- io::parse_path_seq / io::parse_walk_seq, the tokenisation ----
    tok,              \* the body, the parallel map over its tokens, sids, the offset walk
    \* ---- both passes over one file ----
    cnt_pos           \* lines of file the second pass has consumed

runVars == <<params, gfa, pc, result, out, opened, events, path_count, n_groups>>

indexVars == <<file, index_edges, idx_pos, idx>>

countVars == <<overflow_checks, graph_marginals, subset_coords, subset_map, num_path,
               node_table, cnt_state, last, pushed>>

bedVars == <<bed_file, bed_pos, bed>>

grpVars == <<grp_file, grp_pos, grp>>

thrVars == <<threshold_str, require, thr>>

growthVars == <<hist_aux, growth>>

tokVars == <<tok>>

passVars == <<cnt_pos>>

vars == <<runVars, indexVars, countVars, bedVars,
           grpVars, thrVars, growthVars, tokVars, passVars>>

notRunVars == <<indexVars, countVars, bedVars, grpVars,
                 thrVars, growthVars, tokVars, passVars>>

notIndexVars == <<runVars, countVars, bedVars, grpVars,
                   thrVars, growthVars, tokVars, passVars>>

notCountVars == <<runVars, indexVars, bedVars, grpVars,
                   thrVars, growthVars, tokVars, passVars>>

notBedVars == <<runVars, indexVars, countVars, grpVars,
                 thrVars, growthVars, tokVars, passVars>>

notGrpVars == <<runVars, indexVars, countVars, bedVars,
                 thrVars, growthVars, tokVars, passVars>>

notThrVars == <<runVars, indexVars, countVars, bedVars,
                 grpVars, growthVars, tokVars, passVars>>

notGrowthVars == <<runVars, indexVars, countVars, bedVars,
                    grpVars, thrVars, tokVars, passVars>>

notTokVars == <<runVars, indexVars, countVars, bedVars,
                 grpVars, thrVars, growthVars, passVars>>

\* what the second pass over file leaves alone
notPassVars == <<runVars, indexVars, bedVars, grpVars, thrVars, growthVars, tokVars>>

(***************************************************************************)
(* Bounds and program constants                                            *)
(***************************************************************************)
\* cli.rs:558, the largest number of path groups the by-total abacus takes
GroupCeiling == 65534

\* the GFA files of SpecRun hold up to MaxSLines S lines
MaxSLines == 1

\* the threshold lists of SpecRun hold up to MaxPairs (coverage, quorum) pairs
MaxPairs == 2

\* the GFA files of SpecIndex hold up to MaxLines lines
MaxLines == 3

\* the sequence of an S line holds up to MaxSeqLen bases
MaxSeqLen == 2

\* usize is modelled UsizeBits wide (64 in the build); arithmetic wraps mod 2^UsizeBits
UsizeBits == 16

\* the number of shards of the ItemTable, scaled down
SIZE_T == 2

\* the second pass of SpecCount reads up to MaxPathLines P/W lines
MaxPathLines == 2

\* a path or walk body of SpecCount holds up to MaxTokens node occurrences
MaxTokens == 2

\* the longest node of SpecCount
MaxNodeLen == 3

\* subset intervals of SpecCount lie within 0..MaxCoord
MaxCoord == 3

\* a subset list of SpecCount holds up to MaxIntervals entries
MaxIntervals == 2

\* path names and walk headers of SpecCount start at offsets 0..MaxOffset
MaxOffset == 1

\* the BED files of SpecBed hold up to MaxBedRows rows
MaxBedRows == 3

\* a 12-column row of SpecBed holds up to MaxBlocks blocks
MaxBlocks == 2

\* the grouping files of SpecGroups hold up to MaxGroupRows rows
MaxGroupRows == 3

\* the threshold lists of SpecThreshold hold up to MaxElements elements
MaxElements == 3

\* the growth tables of SpecGrowth have up to MaxGrowthGroups group rows
MaxGrowthGroups == 2

\* the GFA files of SpecPass hold up to MaxPassLines lines after their S lines
MaxPassLines == 3


(***************************************************************************)
(* Bytes, buffers and the GFA lines the specifications read                *)
(***************************************************************************)
TAB == "\t"

LF == "\n"

CR == "\r"

Min(S) == CHOOSE x \in S : \A y \in S : x <= y

\* Iterator::position over buf from cursor c: the 0-based index of the first
\* byte at or after c that is one of delims, or -1 (None)
FindAt(buf, c, delims) ==
    LET hits == {k \in c..(Len(buf) - 1) : buf[k + 1] \in delims}
    IN  IF hits = {} THEN -1 ELSE Min(hits)

\* the slice buf[from..to] (0-based, half-open)
Slice(buf, from, to) == SubSeq(buf, from + 1, to)

\* buf[k] (0-based)
At(buf, k) == buf[k + 1]

Digits == <<"0", "1", "2", "3", "4", "5", "6", "7", "8", "9">>

DigitValue(c) == (CHOOSE i \in DOMAIN Digits : Digits[i] = c) - 1

IsNumber(str) ==
    /\ Len(str) > 0
    /\ \A i \in DOMAIN str : \E j \in DOMAIN Digits : Digits[j] = str[i]

\* usize::from_str on a string of decimal digits
RECURSIVE DecimalValue(_)
DecimalValue(str) ==
    IF Len(str) = 0 THEN 0
    ELSE 10 * DecimalValue(SubSeq(str, 1, Len(str) - 1)) + DigitValue(str[Len(str)])

\* Option<usize>::None
None == -1

\* usize::from_str(..).ok()
ParseUsize(str) == IF IsNumber(str) THEN DecimalValue(str) ELSE None

\* PathSegment: the identifier without coordinates, and optional coordinates
PathSegment(id, start, end) == [id |-> id, start |-> start, end |-> end]

\* PathSegment::from_str: "<id>:<start>-<end>", the coordinates optional
PathSegmentFromStr(name) ==
    LET colon == FindAt(name, 0, {":"})
    IN  IF colon = -1 THEN PathSegment(name, None, None)
        ELSE LET rest == Slice(name, colon + 1, Len(name))
                 dash == FindAt(rest, 0, {"-"})
             IN  IF dash = -1 THEN PathSegment(name, None, None)
                 ELSE PathSegment(Slice(name, 0, colon),
                                  ParseUsize(Slice(rest, 0, dash)),
                                  ParseUsize(Slice(rest, dash + 1, Len(rest))))

\* PathSegment::new(sample, haplotype, seqid, start, end)
PathSegmentNew(sample, haplotype, seqid, start, end) ==
    PathSegment(sample \o <<"#">> \o haplotype \o <<"#">> \o seqid, start, end)

\* PathSegment::coords: Some((start, end)) when both are known
HasCoords(seg) == seg.start # None /\ seg.end # None

(***************************************************************************)
(* io::parse_path_identifier, io::parse_walk_identifier                    *)
(***************************************************************************)
\* io.rs:240-251; ok is FALSE where an unwrap() panics
ParsePathIdentifier(data) ==
    LET t1 == FindAt(data, 0, {TAB})
        start == t1 + 1
        t2 == IF t1 = -1 THEN -1 ELSE FindAt(data, start, {TAB})
        offset == t2 - start
    IN  IF t1 = -1 \/ t2 = -1
        THEN [ok |-> FALSE, seg |-> PathSegment(<<>>, None, None), rest |-> <<>>]
        ELSE [ok |-> TRUE,
              seg |-> PathSegmentFromStr(Slice(data, start, start + offset)),
              rest |-> Slice(data, start + offset + 1, Len(data))]

\* io.rs:156-162: the 0-based indices of the first n tabs at or after c, or <<>>
\* when there are fewer than n
RECURSIVE TabsFrom(_, _, _)
TabsFrom(data, c, n) ==
    IF n = 0 THEN <<>>
    ELSE LET t == FindAt(data, c, {TAB})
         IN  IF t = -1 THEN <<-1>>
             ELSE <<t>> \o TabsFrom(data, t + 1, n - 1)

\* io.rs:153-183; ok is FALSE where an unwrap() panics
ParseWalkIdentifier(data) ==
    LET tabs == TabsFrom(data, 0, 6)
        bad == [ok |-> FALSE, seg |-> PathSegment(<<>>, None, None), rest |-> <<>>]
    IN  IF Len(tabs) < 6 \/ tabs[Len(tabs)] = -1 THEN bad
        ELSE LET col(k) == Slice(data, IF k = 0 THEN 0 ELSE tabs[k] + 1, tabs[k + 1])
                 starField == <<"*">>
                 okNum(c) == c = starField \/ IsNumber(c)
                 num(c) == IF c = starField THEN None ELSE ParseUsize(c)
             IN  IF ~okNum(col(4)) \/ ~okNum(col(5)) THEN bad
                 ELSE [ok |-> TRUE,
                       seg |-> PathSegmentNew(col(1), col(2), col(3),
                                              num(col(4)), num(col(5))),
                       rest |-> Slice(data, tabs[6] + 1, Len(data))]

(***************************************************************************)
(* io::parse_graph_marginals                                               *)
(***************************************************************************)
\* io.rs:284, node2id.entry(sid).or_insert(node_count)
EntryOverwrite(map, key, value) ==
    [k \in DOMAIN map \cup {key} |-> IF k = key THEN value ELSE map[k]]

EntryOrInsert(map, key, value) ==
    IF key \in DOMAIN map THEN map
    ELSE [k \in DOMAIN map \cup {key} |-> IF k = key THEN value ELSE map[k]]

\* io.rs:262-271
IndexStart ==
    [state |-> "reading", node_count |-> 0, edge_count |-> 0, node2id |-> <<>>,
     edge2id |-> <<>>, path_segments |-> <<>>, node_len |-> <<>>]

Panicked(st) == [st EXCEPT !.state = "panicked"]

\* io.rs:275-285, an S line
IndexSegment(st, buf) ==
    LET t1 == FindAt(buf, 0, {TAB})
        start == t1 + 1
        t2 == IF t1 = -1 THEN -1 ELSE FindAt(buf, start, {TAB})
        offset == t2 - start
        sid == Slice(buf, start, start + offset)
        t3 == IF t2 = -1 THEN -1 ELSE FindAt(buf, t2 + 1, {TAB, LF, CR})
    IN  IF t1 = -1 \/ t2 = -1 \/ t3 = -1 THEN Panicked(st)
        ELSE [st EXCEPT !.node_len = Append(@, t3 - (t2 + 1)),
                        !.node2id = EntryOrInsert(@, sid, st.node_count),
                        !.node_count = @ + 1]

\* io.rs:286-310, an L line while edges are indexed
IndexLink(st, buf) ==
    LET t1 == FindAt(buf, 0, {TAB})
        start == t1 + 1
        t2 == IF t1 = -1 THEN -1 ELSE FindAt(buf, start, {TAB})
        offset == t2 - start
        sid1 == Slice(buf, start, start + offset)
        \* io.rs:294, the result is not unwrapped; a miss exhausts the iterator
        t3 == IF t2 = -1 THEN -1 ELSE FindAt(buf, t2 + 1, {TAB})
        o1 == IF At(buf, offset + 1) = "+" THEN ">" ELSE "<"
        start2 == start + 2
        t4 == IF t3 = -1 THEN -1 ELSE FindAt(buf, t3 + 1, {TAB})
        offset2 == t4 - (t3 + 1)
    IN  IF t1 = -1 \/ t2 = -1 \/ t4 = -1 THEN Panicked(st)
        ELSE IF offset + 1 >= Len(buf) \/ start2 + offset2 > Len(buf)
        THEN Panicked(st)
        ELSE LET sid2 == Slice(buf, start2, start2 + offset2)
                 o2 == IF At(buf, offset2 + 1) = "+" THEN ">" ELSE "<"
                 lid == <<o1>> \o sid1 \o <<o2>> \o sid2
             IN  [st EXCEPT !.edge2id = EntryOrInsert(@, lid, st.edge_count),
                            !.edge_count = @ + 1]

\* io.rs:311-313, a P line
IndexPath(st, buf) ==
    LET r == ParsePathIdentifier(buf)
    IN  IF ~r.ok THEN Panicked(st)
        ELSE [st EXCEPT !.path_segments = Append(@, r.seg)]

\* a first pass that leaves walks out of path_segments
IndexWalkUncounted(st, buf) ==
    LET r == ParseWalkIdentifier(buf)
    IN  IF ~r.ok THEN Panicked(st)
        ELSE st

\* io.rs:314-316, a W line
IndexWalk(st, buf) ==
    LET r == ParseWalkIdentifier(buf)
    IN  IF ~r.ok THEN Panicked(st)
        ELSE [st EXCEPT !.path_segments = Append(@, r.seg)]

\* io.rs:275-317, the dispatch on buf[0]
IndexKind(buf, edges) ==
    IF buf[1] = "S" THEN "S"
    ELSE IF edges /\ buf[1] = "L" THEN "L"
    ELSE IF buf[1] = "P" THEN "P"
    ELSE IF buf[1] = "W" THEN "W"
    ELSE "skip"

\* io.rs:274-320, one turn of the loop
IndexLine(st, buf, edges) ==
    LET kind == IndexKind(buf, edges)
    IN  IF kind = "S" THEN IndexSegment(st, buf)
        ELSE IF kind = "L" THEN IndexLink(st, buf)
        ELSE IF kind = "P" THEN IndexPath(st, buf)
        ELSE IF kind = "W" THEN IndexWalk(st, buf)
        ELSE st

\* io.rs:253-323, the whole pass over the first n lines
RECURSIVE IndexLines(_, _, _)
IndexLines(lines, n, edges) ==
    IF n = 0 THEN IndexStart
    ELSE LET st == IndexLines(lines, n - 1, edges)
         IN  IF st.state = "panicked" THEN st ELSE IndexLine(st, lines[n], edges)

ParseGraphMarginals(lines, edges) ==
    LET st == IndexLines(lines, Len(lines), edges)
    IN  IF st.state = "panicked" THEN st ELSE [st EXCEPT !.state = "done"]

(***************************************************************************)
(* usize arithmetic                                                        *)
(***************************************************************************)
UsizeModulus == 2 ^ UsizeBits

\* usize::MAX
UsizeMax == UsizeModulus - 1

\* the outcome of a - b and a + b on usize; overflow is TRUE when the exact
\* result does not fit, value is the wrapped result
UsizeSub(a, b) == [value |-> (a - b) % UsizeModulus, overflow |-> a < b]

UsizeAdd(a, b) == [value |-> (a + b) % UsizeModulus, overflow |-> a + b > UsizeMax]

(***************************************************************************)
(* io::build_subpath_map                                                   *)
(***************************************************************************)
\* abacus_data.subset_coords: None, or Some(list of PathSegments)
NoSubset == [some |-> FALSE, coords |-> <<>>]

SomeSubset(coords) == [some |-> TRUE, coords |-> coords]

\* the order of (usize, usize) tuples that v.sort() uses
TupleLess(x, y) == x[1] < y[1] \/ (x[1] = y[1] /\ x[2] < y[2])

\* io.rs:428-429, the set of tuples as a sorted vector
RECURSIVE SortedTuples(_)
SortedTuples(S) ==
    IF S = {} THEN <<>>
    ELSE LET m == CHOOSE x \in S : \A y \in S \ {x} : TupleLess(x, y)
         IN  <<m>> \o SortedTuples(S \ {m})

\* io.rs:421-424
CoordsOrFullRange(seg) ==
    IF HasCoords(seg) THEN <<seg.start, seg.end>> ELSE <<0, UsizeMax>>

\* io.rs:415-432
BuildSubpathMap(coords) ==
    LET ids == {coords[k].id : k \in DOMAIN coords}
    IN  [pid \in ids |->
            SortedTuples({CoordsOrFullRange(coords[k]) :
                             k \in {j \in DOMAIN coords : coords[j].id = pid}})]

\* io.rs:441-444
SubsetMapOf(sc) == IF ~sc.some THEN <<>> ELSE BuildSubpathMap(sc.coords)

\* io.rs:449
Complete == << <<0, UsizeMax>> >>

\* io.rs:458-466 and 492-500, the interval list handed to the body parser
SubsetForAbsentComplete(seg) ==
    IF ~subset_coords.some THEN Complete
    ELSE IF seg.id \in DOMAIN subset_map THEN subset_map[seg.id]
    ELSE Complete

SubsetFor(seg) ==
    IF ~subset_coords.some THEN Complete
    ELSE IF seg.id \in DOMAIN subset_map THEN subset_map[seg.id]
    ELSE SubSeq(Complete, 2, 1)

\* io.rs:457 and 491, path_seg.coords().get_or_insert((0, 0)).0
OffsetOf(seg) == IF HasCoords(seg) THEN seg.start ELSE 0

(***************************************************************************)
(* io::parse_path_seq, io::parse_walk_seq                                  *)
(***************************************************************************)
\* slice::split: the pieces of bytes between the bytes of delims
RECURSIVE SplitOn(_, _)
SplitOn(bytes, delims) ==
    LET d == FindAt(bytes, 0, delims)
    IN  IF d = -1 THEN <<bytes>>
        ELSE <<Slice(bytes, 0, d)>> \o SplitOn(Slice(bytes, d + 1, Len(bytes)), delims)

\* io.rs:362-376, one token of a path body; -1 where the closure panics
PathTokenId(node, node2id) ==
    IF Len(node) = 0 THEN -1
    ELSE LET name == Slice(node, 0, Len(node) - 1)
             o == At(node, Len(node) - 1)
         IN  IF name \notin DOMAIN node2id THEN -1
             ELSE IF o # "-" /\ o # "+" THEN -1
             ELSE node2id[name]

\* io.rs:205-210, one token of a walk body; -1 where the closure panics
WalkTokenId(node, node2id) ==
    IF node \notin DOMAIN node2id THEN -1 ELSE node2id[node]

\* io.rs:385-387 and 219-221, the cursor into subset_coords
RECURSIVE AdvanceCursor(_, _, _)
AdvanceCursor(subset, i, p) ==
    IF i < Len(subset) /\ subset[i + 1][2] <= p
    THEN AdvanceCursor(subset, i + 1, p)
    ELSE i

\* io.rs:395-403, the uncovered base pairs handed to match_f
Uncovered(s, e, p, l) ==
    LET left == IF s > p THEN UsizeSub(s, p) ELSE [value |-> 0, overflow |-> FALSE]
        r1 == UsizeSub(e, p)
        r2 == UsizeSub(r1.value, l)
        right == IF e < p + l
                 THEN [value |-> r2.value, overflow |-> r1.overflow \/ r2.overflow]
                 ELSE [value |-> 0, overflow |-> FALSE]
        sum == UsizeAdd(left.value, right.value)
    IN  [value |-> sum.value,
         overflow |-> left.overflow \/ right.overflow \/ sum.overflow]

\* a call of match_f, or a push of parse_walk_seq: the node and where it lies
Visit(sid, uncovered, p, l, s, e) ==
    [sid |-> sid, uncovered |-> uncovered, p |-> p, l |-> l, s |-> s, e |-> e]

\* io.rs:380-410, the offset walk from the k-th sid on, cursor i, position p:
\* the calls of match_f in order, whether the loop ended by break, whether it
\* panicked
RECURSIVE PathWalk(_, _, _, _, _, _, _)
PathWalk(sids, k, i, p, subset, node_len, checks) ==
    IF k > Len(sids)
    THEN [calls |-> <<>>, broke |-> FALSE, panicked |-> FALSE]
    ELSE LET j == AdvanceCursor(subset, i, p)
             l == node_len[sids[k] + 1]
         IN  IF j < Len(subset) /\ subset[j + 1][1] <= p + l
             THEN LET u == Uncovered(subset[j + 1][1], subset[j + 1][2], p, l)
                      rest == PathWalk(sids, k + 1, j, p + l, subset, node_len, checks)
                  IN  IF checks /\ u.overflow
                      THEN [calls |-> <<>>, broke |-> FALSE, panicked |-> TRUE]
                      ELSE [rest EXCEPT !.calls =
                               <<Visit(sids[k], u.value, p, l,
                                       subset[j + 1][1], subset[j + 1][2])>> \o @]
             ELSE IF j >= Len(subset)
             THEN [calls |-> <<>>, broke |-> TRUE, panicked |-> FALSE]
             ELSE PathWalk(sids, k + 1, j, p + l, subset, node_len, checks)

\* io.rs:214-232, the offset walk of parse_walk_seq: the nodes it pushes
RECURSIVE WalkWalk(_, _, _, _, _, _)
WalkWalk(sids, k, i, p, subset, node_len) ==
    IF k > Len(sids) THEN <<>>
    ELSE LET j == AdvanceCursor(subset, i, p)
             l == node_len[sids[k] + 1]
             rest == WalkWalk(sids, k + 1, j, p + l, subset, node_len)
         IN  IF j < Len(subset) /\ subset[j + 1][1] <= p + l
             THEN <<Visit(sids[k], 0, p, l, subset[j + 1][1], subset[j + 1][2])>>
                  \o rest
             ELSE rest

NoVisits == [sids |-> <<>>, calls |-> <<>>, broke |-> FALSE, panicked |-> TRUE]

\* io.rs:325-413, parse_path_seq up to the calls of match_f
ParsePathSeq(data, gm, offset, subset, checks) ==
    LET end == FindAt(data, 0, {TAB, LF, CR})
    IN  IF end = -1 THEN NoVisits
        ELSE LET tokens == SplitOn(Slice(data, 0, end), {","})
                 sids == [k \in DOMAIN tokens |-> PathTokenId(tokens[k], gm.node2id)]
             IN  IF \E k \in DOMAIN sids : sids[k] = -1 THEN NoVisits
                 ELSE LET w == PathWalk(sids, 1, 0, offset, subset, gm.node_len, checks)
                      IN  [sids |-> sids, calls |-> w.calls, broke |-> w.broke,
                           panicked |-> w.panicked]

\* io.rs:468-475, the match_f of parse_gfa_nodecount: the calls that deposit
DepositsOf(calls) == SelectSeq(calls, LAMBDA c : c.uncovered = 0)

\* io.rs:185-232, parse_walk_seq up to its pushes
ParseWalkSeq(data, node2id, node_len, offset, subset) ==
    LET end == FindAt(data, 0, {TAB, LF, CR})
    IN  IF end = -1 \/ end = 0 THEN NoVisits
        ELSE LET tokens == SplitOn(Slice(data, 1, end), {"<", ">"})
                 sids == [k \in DOMAIN tokens |-> WalkTokenId(tokens[k], node2id)]
             IN  IF \E k \in DOMAIN sids : sids[k] = -1 THEN NoVisits
                 ELSE [sids |-> sids,
                       calls |-> WalkWalk(sids, 1, 0, offset, subset, node_len),
                       broke |-> FALSE, panicked |-> FALSE]

(***************************************************************************)
(* The ItemTable                                                           *)
(***************************************************************************)
Shards == 0..(SIZE_T - 1)

\* ItemTable::new(n): empty item vectors, prefix sums of n + 1 zeros
ItemTableNew(n) ==
    [items |-> [sh \in Shards |-> <<>>],
     id_prefsum |-> [sh \in Shards |-> [k \in 1..(n + 1) |-> 0]]]

\* io.rs:471-473 and 227-229, the pushes of one line, in order
RECURSIVE PushAll(_, _, _)
PushAll(table, deposits, row) ==
    IF deposits = <<>> THEN table
    ELSE LET sid == Head(deposits).sid
             sh == sid % SIZE_T
             t == [table EXCEPT !.items[sh] = Append(@, sid),
                                !.id_prefsum[sh][row + 1 + 1] = @ + 1]
         IN  PushAll(t, Tail(deposits), row)

\* io.rs:479-481 and 235-237
PrefixSumSkipped(table, row) == table

PrefixSum(table, row) ==
    [table EXCEPT !.id_prefsum =
        [sh \in Shards |->
            [table.id_prefsum[sh] EXCEPT ![row + 1 + 1] = @ + table.id_prefsum[sh][row + 1]]]]

\* what the history variable last records of a line
LineRecord(kind, seg, subset, v) ==
    [kind |-> kind, offset |-> OffsetOf(seg), sids |-> v.sids, subset |-> subset,
     listed |-> seg.id \in DOMAIN subset_map, calls |-> v.calls,
     deposits |-> IF kind = "P" THEN DepositsOf(v.calls) ELSE v.calls,
     broke |-> v.broke]

NoLine ==
    [kind |-> "none", offset |-> 0, sids |-> <<>>, subset |-> <<>>, listed |-> FALSE,
     calls |-> <<>>, deposits |-> <<>>, broke |-> FALSE]

(***************************************************************************)
(* io::parse_bed                                                           *)
(***************************************************************************)
\* str::starts_with
StartsWith(str, prefix) ==
    Len(str) >= Len(prefix) /\ SubSeq(str, 1, Len(prefix)) = prefix

\* io.rs:29-32, the names of BED header rows
IsBedHeader(name) ==
    \/ StartsWith(name, <<"b", "r", "o", "w", "s", "e", "r", " ">>)
    \/ StartsWith(name, <<"t", "r", "a", "c", "k", " ">>)
    \/ StartsWith(name, <<"#">>)

\* io.rs:16-23
BedStart ==
    [state |-> "reading", is_header |-> TRUE, is_full_bed |-> FALSE, res |-> <<>>,
     added |-> <<>>]

\* io.rs:57-69, the segments of the blocks of a 12-column row
RECURSIVE BedBlocks(_, _, _, _)
BedBlocks(path_seg, block_sizes, block_starts, k) ==
    IF k = 0 THEN <<>>
    ELSE LET size == ParseUsize(block_sizes[k])
             start == ParseUsize(block_starts[k])
             tmp == [path_seg EXCEPT
                        !.start = IF path_seg.start # None THEN path_seg.start + start
                                  ELSE start,
                        !.end = start + size]
         IN  Append(BedBlocks(path_seg, block_sizes, block_starts, k - 1), tmp)

\* io.rs:25-74, one row; added records what the row pushed
BedRow(st, row) ==
    LET path_name == row[1]
        seg0 == PathSegmentFromStr(path_name)
        path_seg == IF Len(row) >= 3
                    THEN [seg0 EXCEPT !.start = ParseUsize(row[2]),
                                      !.end = ParseUsize(row[3])]
                    ELSE seg0
        \* io.rs:48, row_it.nth(6) after three columns is the tenth column
        full == Len(row) >= 10
        block_count == IF full THEN ParseUsize(row[10]) ELSE None
        block_sizes == IF Len(row) >= 11 THEN SplitOn(row[11], {","}) ELSE <<>>
        block_starts == IF Len(row) >= 12 THEN SplitOn(row[12], {","}) ELSE <<>>
        broken ==
            \/ Len(row) = 2
            \/ full /\ (block_count = None \/ Len(row) < 12)
            \/ full /\ block_count # None
                    /\ \E k \in 1..block_count :
                          \/ k > Len(block_sizes) \/ k > Len(block_starts)
                          \/ ParseUsize(block_sizes[k]) = None
                          \/ ParseUsize(block_starts[k]) = None
    IN  IF st.is_header /\ IsBedHeader(path_name)
        THEN [st EXCEPT !.added = Append(@, <<>>)]
        ELSE IF broken THEN [st EXCEPT !.state = "panicked", !.is_header = FALSE]
        ELSE LET blocks == IF full
                           THEN BedBlocks(path_seg, block_sizes, block_starts, block_count)
                           ELSE <<>>
                 is_full_bed == st.is_full_bed \/ full
                 pushes == IF is_full_bed THEN blocks ELSE Append(blocks, path_seg)
             IN  [st EXCEPT !.is_header = FALSE,
                            !.is_full_bed = is_full_bed,
                            !.res = @ \o pushes,
                            !.added = Append(@, pushes)]

BedIdle ==
    /\ bed_file = <<>>
    /\ bed_pos = 0
    /\ bed = BedStart

(***************************************************************************)
(* io::parse_groups                                                        *)
(***************************************************************************)
\* PathSegment's Eq and Hash: the identifier, the coordinates ignored
PathSegmentEq(a, b) == a.id = b.id

\* the value parse_groups has not returned yet
NoReturn == [ok |-> FALSE, kind |-> "none", list |-> <<>>]

\* io.rs:83-85
GroupsStart == [state |-> "reading", res |-> <<>>, visited |-> {}, ret |-> NoReturn]

\* io.rs:90-115, one row
GroupsRowUnchecked(st, row) ==
    LET path_seg == PathSegmentFromStr(row[1])
    IN  IF Len(row) < 2 THEN [st EXCEPT !.state = "panicked"]
        ELSE [st EXCEPT !.visited = @ \cup {path_seg},
                        !.res = Append(@, <<path_seg, row[2]>>)]

GroupsRow(st, row) ==
    LET path_seg == PathSegmentFromStr(row[1])
    IN  IF \E v \in st.visited : PathSegmentEq(v, path_seg)
        THEN \* io.rs:95-102, return Err(..)
             [st EXCEPT !.state = "done",
                        !.ret = [ok |-> FALSE, kind |-> "InvalidData", list |-> <<>>]]
        ELSE IF Len(row) < 2
        THEN \* io.rs:112, row_it.next().unwrap()
             [st EXCEPT !.state = "panicked", !.visited = @ \cup {path_seg}]
        ELSE [st EXCEPT !.visited = @ \cup {path_seg},
                        !.res = Append(@, <<path_seg, row[2]>>)]

GroupsIdle ==
    /\ grp_file = <<>>
    /\ grp_pos = 0
    /\ grp = GroupsStart

(***************************************************************************)
(* cli::parse_threshold_cli                                                *)
(***************************************************************************)
\* str::trim, for strings whose only whitespace is the blank
RECURSIVE Trim(_)
Trim(str) ==
    IF Len(str) = 0 THEN str
    ELSE IF Head(str) = " " THEN Trim(Tail(str))
    ELSE IF str[Len(str)] = " " THEN Trim(SubSeq(str, 1, Len(str) - 1))
    ELSE str

AllDigits(str) == \A i \in DOMAIN str : \E j \in DOMAIN Digits : Digits[j] = str[i]

\* usize::from_str: an optional '+', then one or more decimal digits
UsizeFromStr(str) ==
    LET body == IF Len(str) > 0 /\ Head(str) = "+" THEN Tail(str) ELSE str
    IN  IF IsNumber(body) THEN [ok |-> TRUE, v |-> DecimalValue(body)]
        ELSE [ok |-> FALSE, v |-> 0]

\* f64::from_str on strings of sign, digits and '.', with at most one
\* fractional digit: the value in tenths
F64FromStr(str) ==
    LET signed == Len(str) > 0 /\ Head(str) \in {"+", "-"}
        body == IF signed THEN Tail(str) ELSE str
        dot == FindAt(body, 0, {"."})
        int == IF dot = -1 THEN body ELSE Slice(body, 0, dot)
        frac == IF dot = -1 THEN <<>> ELSE Slice(body, dot + 1, Len(body))
        tenths == 10 * DecimalValue(int) + (IF Len(frac) = 0 THEN 0 ELSE DigitValue(frac[1]))
    IN  IF AllDigits(int) /\ AllDigits(frac) /\ Len(int) + Len(frac) > 0 /\ Len(frac) <= 1
        THEN [ok |-> TRUE, v |-> IF signed /\ Head(str) = "-" THEN 0 - tenths ELSE tenths]
        ELSE [ok |-> FALSE, v |-> 0]

\* cli.rs:393-416, rel_val: Ok(t) when el is a float with 0.0 <= t <= 1.0
RelVal(el) ==
    LET t == F64FromStr(Trim(el))
    IN  IF t.ok /\ 0 <= t.v /\ t.v <= 10 THEN t ELSE [ok |-> FALSE, v |-> 0]

Absolute(t) == [kind |-> "Absolute", v |-> t]

\* Threshold::Relative, the value in tenths
Relative(t) == [kind |-> "Relative", v |-> t]

RequireThreshold == {"Absolute", "Relative", "Either"}

\* cli.rs:418-433, the Threshold pushed for el, or the error that returns
ElementThresholdFloatOnly(el, req) ==
    IF RelVal(el).ok
    THEN [ok |-> TRUE, t |-> IF req = "Absolute" THEN Absolute(RelVal(el).v \div 10)
                             ELSE Relative(RelVal(el).v)]
    ELSE [ok |-> FALSE, t |-> Absolute(0)]

ElementThreshold(el, req) ==
    LET abs == UsizeFromStr(Trim(el))
        rel_val == RelVal(el)
    IN  IF req = "Absolute"
        THEN [ok |-> abs.ok, t |-> Absolute(abs.v)]
        ELSE IF req = "Relative"
        THEN [ok |-> rel_val.ok, t |-> Relative(rel_val.v)]
        ELSE IF abs.ok THEN [ok |-> TRUE, t |-> Absolute(abs.v)]
        ELSE [ok |-> rel_val.ok, t |-> Relative(rel_val.v)]

\* cli.rs:390
ThresholdStart == [state |-> "reading", i |-> 0, thresholds |-> <<>>, ret |-> NoReturn]

ThresholdIdle ==
    /\ threshold_str = <<>>
    /\ require = "Either"
    /\ thr = ThresholdStart

(***************************************************************************)
(* cli::run, the growth table (cli.rs:643-705)                             *)
(***************************************************************************)
\* calc_growth(&c, &q) over n groups: one value per group, in tenths
CalcGrowth(c, q, n) == [i \in 1..n |-> 10 * c * i + q]

\* f64::floor of a non-negative value in tenths
Floor(tenths) == tenths \div 10

\* cli.rs:648-670, .collect(): the results of the pairs as a vector; finished
\* lists the pair indices in the order their evaluations ended
CollectAsFinished(results, finished) ==
    [p \in 1..Len(finished) |-> results[finished[p]]]

Collect(results, finished) ==
    [j \in 1..Len(finished) |-> results[j]]

\* cli.rs:696-704, the row of group i
GrowthRow(growths, quorum_len, i) ==
    [label |-> i, values |-> [j \in 1..quorum_len |-> Floor(growths[j][i])]]

\* cli.rs:645-647
GrowthStart(n) ==
    [state |-> "mapping", groups |-> n, results |-> <<>>, finished |-> <<>>,
     growths |-> <<>>, rows |-> <<>>]

GrowthIdle ==
    /\ hist_aux = [coverage |-> <<>>, quorum |-> <<>>]
    /\ growth = GrowthStart(0)

(***************************************************************************)
(* The tokenisation of io::parse_path_seq and io::parse_walk_seq           *)
(***************************************************************************)
\* io.rs:357 and 201, the pieces par_split works on
BodyPieces(kind, data) ==
    LET end == FindAt(data, 0, {TAB, LF, CR})
    IN  IF kind = "P" THEN SplitOn(Slice(data, 0, end), {","})
        ELSE SplitOn(Slice(data, 1, end), {"<", ">"})

\* io.rs:359-376 and 203-210, the map closure on one piece
PieceId(kind, piece, node2id) ==
    IF kind = "P" THEN PathTokenId(piece, node2id) ELSE WalkTokenId(piece, node2id)

\* io.rs:378 and 211, .collect(): the results of the pieces as a vector;
\* finished lists the piece indices in the order the closures ended
GatherAsFinished(results, finished) ==
    [p \in 1..Len(finished) |-> results[finished[p]]]

Gather(results, finished) ==
    [k \in 1..Len(finished) |-> results[k]]

\* io.rs:349-357 and 194-201, the body is delimited and handed to par_split
TokStart(kind, names, data, offset) ==
    [state |-> "mapping", kind |-> kind, names |-> names, data |-> data,
     offset |-> offset, results |-> <<>>, finished |-> <<>>, sids |-> <<>>,
     k |-> 0, p |-> offset]

TokIdle == tok = TokStart("P", <<>>, <<>>, 0)

PassIdle == cnt_pos = 0

(***************************************************************************)
(* What each specification holds still                                     *)
(***************************************************************************)
\* graph_aux is not bound before the indexer pass has returned
NotIndexed == -1

IndexIdle ==
    /\ file = <<>>
    /\ index_edges = FALSE
    /\ idx_pos = 0
    /\ idx = IndexStart

CountIdle ==
    /\ overflow_checks = FALSE
    /\ graph_marginals = [node2id |-> <<>>, node_len |-> <<>>, path_segments_len |-> 0]
    /\ subset_coords = NoSubset
    /\ subset_map = <<>>
    /\ num_path = 0
    /\ node_table = ItemTableNew(0)
    /\ cnt_state = "idle"
    /\ last = NoLine
    /\ pushed = [sh \in Shards |-> <<>>]

RunIdle ==
    /\ params = [cmd |-> "Growth", groupby |-> FALSE, groupby_haplotype |-> FALSE,
                 groupby_sample |-> FALSE]
    /\ gfa = [readable |-> FALSE, s |-> 0, pw |-> 0]
    /\ pc = "idle"
    /\ result = "none"
    /\ out = <<>>
    /\ opened = <<>>
    /\ events = <<>>
    /\ path_count = NotIndexed
    /\ n_groups = 0

(***************************************************************************)
(* cli::run                                                                *)
(***************************************************************************)
Subcommands == {"Histgrowth", "Hist", "Growth", "OrderedHistgrowth", "Table"}

\* the subcommands that read a GFA file and carry the groupby options
GfaCommands == {"Histgrowth", "Hist", "OrderedHistgrowth", "Table"}

\* numbers of P/W lines a GFA file of SpecRun may hold
PathCounts == {0, 1, 2, GroupCeiling, GroupCeiling + 1}

ParamsSet ==
    [cmd : GfaCommands, groupby : BOOLEAN, groupby_haplotype : BOOLEAN,
     groupby_sample : BOOLEAN]
    \cup
    [cmd : {"Growth"}, groupby : {FALSE}, groupby_haplotype : {FALSE},
     groupby_sample : {FALSE}]

Line(kind, n) == [kind |-> kind, n |-> n]

\* cli.rs:488-497, the number of grouping options that are set
GroupbyCountTwoOnly(p) ==
    (IF p.groupby THEN 1 ELSE 0) + (IF p.groupby_haplotype THEN 1 ELSE 0)

GroupbyCount(p) ==
    (IF p.groupby THEN 1 ELSE 0)
    + (IF p.groupby_haplotype THEN 1 ELSE 0)
    + (IF p.groupby_sample THEN 1 ELSE 0)

\* cli.rs:498
GroupbyConflict(p) == GroupbyCount(p) > 1

\* cli.rs:536, the empty-graph short circuit
NothingToDoNever(n) == FALSE

NothingToDo(n) == n = 0

\* cli.rs:558, the ceiling test of the by-total branch
TooManyGroups(g) == g > GroupCeiling

Finish(r) ==
    /\ pc' = "done"
    /\ result' = r

\* the group counts the resolver can return for a graph with n paths
GroupCounts(n) == {h \in PathCounts : h <= n /\ (1 <= h \/ n = 0)}

InitRun ==
    /\ params \in ParamsSet
    /\ gfa \in [readable : BOOLEAN, s : 0..MaxSLines, pw : PathCounts]
    /\ pc = "threads"
    /\ result = "none"
    /\ out = <<>>
    /\ opened = <<>>
    /\ events = <<>>
    /\ path_count = NotIndexed
    /\ n_groups = 0
    /\ IndexIdle
    /\ CountIdle
    /\ BedIdle
    /\ GroupsIdle
    /\ ThresholdIdle
    /\ GrowthIdle
    /\ TokIdle
    /\ PassIdle

\* cli.rs:444-460: the thread pool; touches no file and writes nothing
RunSetThreads ==
    /\ pc = "threads"
    /\ pc' = "groupby"
    /\ UNCHANGED <<params, gfa, result, out, opened, events, path_count, n_groups>>
    /\ UNCHANGED notRunVars

\* cli.rs:462-503: at most one grouping option
RunCheckGroupby ==
    /\ pc = "groupby"
    /\ IF params.cmd \in GfaCommands /\ GroupbyConflict(params)
       THEN Finish("InvalidInput")
       ELSE pc' = "index" /\ UNCHANGED result
    /\ UNCHANGED <<params, gfa, out, opened, events, path_count, n_groups>>
    /\ UNCHANGED notRunVars

\* cli.rs:509-547: indexer pass, empty-graph short circuit, auxiliary resolver
RunIndex ==
    /\ pc = "index"
    /\ IF params.cmd \notin GfaCommands
       THEN \* cli.rs:546
            /\ pc' = "abacus"
            /\ UNCHANGED <<result, opened, events, path_count, n_groups>>
       ELSE IF ~gfa.readable
       THEN \* cli.rs:523, fs::File::open(..)?
            /\ Finish("NotFound")
            /\ opened' = Append(opened, "gfa")
            /\ UNCHANGED <<events, path_count, n_groups>>
       ELSE \/ \* cli.rs:524, GraphAuxilliary::from_gfa(..)? fails
               /\ Finish("InvalidData")
               /\ opened' = Append(opened, "gfa")
               /\ events' = Append(events, "index")
               /\ UNCHANGED <<path_count, n_groups>>
            \/ \* cli.rs:536-539, no P/W line
               /\ NothingToDo(gfa.pw)
               /\ Finish("Ok")
               /\ opened' = Append(opened, "gfa")
               /\ events' = Append(events, "index")
               /\ path_count' = gfa.pw
               /\ UNCHANGED n_groups
            \/ \* cli.rs:542, AbacusAuxilliary::from_params(..)? fails
               /\ ~NothingToDo(gfa.pw)
               /\ Finish("InvalidData")
               /\ opened' = opened \o <<"gfa", "aux">>
               /\ events' = events \o <<"index", "resolve">>
               /\ path_count' = gfa.pw
               /\ UNCHANGED n_groups
            \/ \* cli.rs:542-544, the resolver succeeds with g groups
               /\ ~NothingToDo(gfa.pw)
               /\ \E g \in GroupCounts(gfa.pw) : n_groups' = g
               /\ pc' = "abacus"
               /\ opened' = opened \o <<"gfa", "aux">>
               /\ events' = events \o <<"index", "resolve">>
               /\ path_count' = gfa.pw
               /\ UNCHANGED result
    /\ UNCHANGED <<params, gfa, out>>
    /\ UNCHANGED notRunVars

\* cli.rs:553-600: the abacus (second GFA pass)
RunAbacus ==
    /\ pc = "abacus"
    /\ IF params.cmd \in {"Histgrowth", "Hist"}
       THEN IF TooManyGroups(n_groups)
            THEN \* cli.rs:558-566
                 /\ Finish("Unsupported")
                 /\ UNCHANGED <<opened, events>>
            ELSE \/ \* cli.rs:569-571, AbacusByTotal::from_gfa(..)? fails
                    /\ Finish("InvalidData")
                    /\ opened' = Append(opened, "gfa")
                    /\ events' = Append(events, "second_pass")
                 \/ /\ pc' = "hist"
                    /\ opened' = Append(opened, "gfa")
                    /\ events' = events \o <<"second_pass", "abacus_total">>
                    /\ UNCHANGED result
       ELSE IF params.cmd \in {"Table", "OrderedHistgrowth"}
       THEN \/ \* cli.rs:580-598, no test of n_groups on this branch
               /\ pc' = "hist"
               /\ opened' = Append(opened, "gfa")
               /\ events' = events \o <<"second_pass", "abacus_group">>
               /\ UNCHANGED result
            \/ \* cli.rs:581-591, AbacusByGroup::from_gfa(..)? fails
               /\ Finish("InvalidData")
               /\ opened' = Append(opened, "gfa")
               /\ events' = Append(events, "second_pass")
       ELSE \* cli.rs:599, Abacus::Nil
            /\ pc' = "hist"
            /\ UNCHANGED <<result, opened, events>>
    /\ UNCHANGED <<params, gfa, out, path_count, n_groups>>
    /\ UNCHANGED notRunVars

\* cli.rs:606-625: the histogram, built or loaded
RunHist ==
    /\ pc = "hist"
    /\ IF params.cmd \in {"Histgrowth", "Hist"}
       THEN \* cli.rs:607-615
            /\ pc' = "header"
            /\ events' = Append(events, "hist")
            /\ UNCHANGED <<result, opened, n_groups>>
       ELSE IF params.cmd = "Growth"
       THEN \/ \* cli.rs:618-619, the file cannot be opened or parsed
               /\ Finish("InvalidData")
               /\ opened' = Append(opened, "hist")
               /\ UNCHANGED <<events, n_groups>>
            \/ \* cli.rs:618-619, a histogram over g groups is loaded
               /\ pc' = "header"
               /\ opened' = Append(opened, "hist")
               /\ events' = Append(events, "hist")
               /\ \E g \in PathCounts \ {0} : n_groups' = g
               /\ UNCHANGED result
       ELSE \* cli.rs:621-624
            /\ pc' = "header"
            /\ UNCHANGED <<result, opened, events, n_groups>>
    /\ UNCHANGED <<params, gfa, out, path_count>>
    /\ UNCHANGED notRunVars

\* a run that writes the comment line before the histogram is built or loaded
RunWriteHeaderEarly ==
    /\ (pc = "hist" /\ out = <<>>) \/ pc = "header"
    /\ out' = IF out = <<>> THEN Append(out, Line("comment", 1)) ELSE out
    /\ pc' = IF pc = "header" THEN "output" ELSE pc
    /\ UNCHANGED <<params, gfa, result, opened, events, path_count, n_groups>>
    /\ UNCHANGED notRunVars

\* cli.rs:631-635: the invocation comment line
RunWriteHeader ==
    /\ pc = "header"
    /\ out' = Append(out, Line("comment", 1))
    /\ pc' = "output"
    /\ UNCHANGED <<params, gfa, result, opened, events, path_count, n_groups>>
    /\ UNCHANGED notRunVars

\* cli.rs:643-716: growth table, histogram or coverage table
RunOutput ==
    /\ pc = "output"
    /\ IF params.cmd \in {"Histgrowth", "Growth", "OrderedHistgrowth"}
       THEN \/ \* cli.rs:645, HistAuxilliary::from_params(..)? fails
               /\ Finish("InvalidData")
               /\ UNCHANGED <<out, events>>
            \/ \* cli.rs:648-704
               \E k \in 1..MaxPairs :
                  /\ Finish("Ok")
                  /\ events' = Append(events, "growth")
                  /\ out' = out \o <<Line("coverage", k), Line("quorum", k),
                                     Line("rows", n_groups)>>
       ELSE IF params.cmd = "Hist"
       THEN \* cli.rs:706-708
            /\ Finish("Ok")
            /\ out' = Append(out, Line("hist_tsv", n_groups + 1))
            /\ UNCHANGED events
       ELSE \* cli.rs:709-714
            /\ Finish("Ok")
            /\ out' = Append(out, Line("table_tsv", 1))
            /\ UNCHANGED events
    /\ UNCHANGED <<params, gfa, opened, path_count, n_groups>>
    /\ UNCHANGED notRunVars

NextRun ==
    \/ RunSetThreads
    \/ RunCheckGroupby
    \/ RunIndex
    \/ RunAbacus
    \/ RunHist
    \/ RunWriteHeader
    \/ RunOutput

SpecRun == InitRun /\ [][NextRun]_vars

(***************************************************************************)
(* The GFA files of SpecIndex                                              *)
(***************************************************************************)
NodeNames == {<<"a">>, <<"b", "c">>}

\* "S\t<name>\t<sequence>\n"
SLine(name, n) ==
    <<"S", TAB>> \o name \o <<TAB>> \o [i \in 1..n |-> "A"] \o <<LF>>

\* "L\t<src>\t<orient>\t<dst>\t<orient>\t0M\n"
LLine(src, o1, dst, o2) ==
    <<"L", TAB>> \o src \o <<TAB, o1, TAB>> \o dst \o <<TAB, o2, TAB, "0", "M", LF>>

\* "P\t<name>\t<body>\t*\n"
PLine(name, body) == <<"P", TAB>> \o name \o <<TAB>> \o body \o <<TAB, "*", LF>>

\* "W\t<sample>\t<haplotype>\t<seqid>\t<start>\t<end>\t<body>\n"
WLine(sample, haplotype, seqid, start, end, body) ==
    <<"W", TAB>> \o sample \o <<TAB>> \o haplotype \o <<TAB>> \o seqid
    \o <<TAB>> \o start \o <<TAB>> \o end \o <<TAB>> \o body \o <<LF>>

\* a header line, which neither pass reads
HLine == <<"H", TAB, "V", "N", LF>>

IndexAlphabet ==
    {SLine(n, l) : n \in NodeNames, l \in 1..MaxSeqLen}
    \cup {LLine(<<"a">>, "+", <<"b", "c">>, "-"), LLine(<<"b", "c">>, "-", <<"a">>, "+")}
    \cup {PLine(<<"p">>, <<"a", "+">>), PLine(<<"q", ":", "2", "-", "5">>, <<"a", "+">>)}
    \cup {WLine(<<"s">>, <<"1">>, <<"c">>, <<"0">>, <<"4">>, <<">", "a">>),
          WLine(<<"s">>, <<"2">>, <<"c">>, <<"*">>, <<"*">>, <<"<", "a">>)}
    \cup {HLine}

\* all files of up to n lines over an alphabet of lines
FilesOver(alphabet, n) == UNION {[1..k -> alphabet] : k \in 0..n}

\* the same stream with its final newline missing
Unterminated(f) ==
    [f EXCEPT ![Len(f)] = SubSeq(f[Len(f)], 1, Len(f[Len(f)]) - 1)]

WithUnterminated(files) ==
    files \cup {Unterminated(f) : f \in {g \in files : Len(g) > 0}}

InitIndex ==
    /\ file \in WithUnterminated(FilesOver(IndexAlphabet, MaxLines))
    /\ index_edges \in BOOLEAN
    /\ idx_pos = 0
    /\ idx = IndexStart
    /\ RunIdle
    /\ CountIdle
    /\ BedIdle
    /\ GroupsIdle
    /\ ThresholdIdle
    /\ GrowthIdle
    /\ TokIdle
    /\ PassIdle

\* io.rs:274, read_until yields the next line
IndexRead(kind) ==
    /\ idx.state = "reading"
    /\ idx_pos < Len(file)
    /\ IndexKind(file[idx_pos + 1], index_edges) = kind
    /\ idx' = IndexLine(idx, file[idx_pos + 1], index_edges)
    /\ idx_pos' = idx_pos + 1
    /\ UNCHANGED <<file, index_edges>>
    /\ UNCHANGED notIndexVars

IndexReadS == IndexRead("S")

IndexReadL == IndexRead("L")

IndexReadP == IndexRead("P")

IndexReadW == IndexRead("W")

IndexReadOther == IndexRead("skip")

\* io.rs:274 and 322, read_until returns 0 and the tuple is returned
IndexReturn ==
    /\ idx.state = "reading"
    /\ idx_pos = Len(file)
    /\ idx' = [idx EXCEPT !.state = "done"]
    /\ UNCHANGED <<file, index_edges, idx_pos>>
    /\ UNCHANGED notIndexVars

NextIndex ==
    \/ IndexReadS
    \/ IndexReadL
    \/ IndexReadP
    \/ IndexReadW
    \/ IndexReadOther
    \/ IndexReturn

SpecIndex == InitIndex /\ [][NextIndex]_vars

(***************************************************************************)
(* io::parse_gfa_nodecount, one action per line of the stream               *)
(***************************************************************************)
\* the segments of the graphs of SpecCount: "a" and "bc"
CountSegments == <<SLine(<<"a">>, MaxNodeLen), SLine(<<"b", "c">>, 1)>>

\* P lines and W lines of SpecCount name the same path, s#1#c
PathId == <<"s", "#", "1", "#", "c">>

\* a path that no line of the stream names
OtherId == <<"x">>

\* the offsets a path name or walk header of SpecCount carries
Offsets == 0..MaxOffset

TokenSeqs == UNION {[1..k -> NodeNames] : k \in 1..MaxTokens}

\* "a+,bc+"
RECURSIVE PathBody(_)
PathBody(names) ==
    IF Len(names) = 1 THEN Head(names) \o <<"+">>
    ELSE Head(names) \o <<"+", ",">> \o PathBody(Tail(names))

\* ">a>bc"
RECURSIVE WalkBody(_)
WalkBody(names) ==
    IF Len(names) = 0 THEN <<>>
    ELSE <<">">> \o Head(names) \o WalkBody(Tail(names))

\* "s#1#c" for offset 0, "s#1#c:<o>-9" otherwise
PathName(o) == IF o = 0 THEN PathId ELSE PathId \o <<":", Digits[o + 1], "-", "9">>

CountPLines == {PLine(PathName(o), PathBody(t)) : o \in Offsets, t \in TokenSeqs}

CountWLines ==
    {WLine(<<"s">>, <<"1">>, <<"c">>,
           IF o = 0 THEN <<"*">> ELSE <<Digits[o + 1]>>,
           IF o = 0 THEN <<"*">> ELSE <<"9">>,
           WalkBody(t)) : o \in Offsets, t \in TokenSeqs}

Intervals == {<<s, e>> : s \in 0..MaxCoord, e \in 0..MaxCoord}

\* the entries of a subset list: the path with or without coordinates, or
\* another path
SubsetSegs ==
    {PathSegment(PathId, None, None), PathSegment(OtherId, None, None)}
    \cup {PathSegment(PathId, c[1], c[2]) : c \in {x \in Intervals : x[1] < x[2]}}

\* the elements of a set as a list, last-chosen first
RECURSIVE ListOf(_)
ListOf(S) ==
    IF S = {} THEN <<>>
    ELSE LET x == CHOOSE y \in S : TRUE IN Append(ListOf(S \ {x}), x)

\* None, or Some of a list of up to MaxIntervals distinct entries
SubsetChoices ==
    {NoSubset}
    \cup {SomeSubset(ListOf(S)) :
             S \in {T \in SUBSET SubsetSegs : 1 <= Cardinality(T) /\ Cardinality(T) <= MaxIntervals}}

\* the subset lists of the multi-line streams: none, the whole path, its
\* first MaxNodeLen base pairs, another path
FewSubsetChoices ==
    {NoSubset,
     SomeSubset(<<PathSegment(PathId, None, None)>>),
     SomeSubset(<<PathSegment(PathId, 0, MaxNodeLen)>>),
     SomeSubset(<<PathSegment(OtherId, None, None)>>)}

\* io.rs:439-449, the pass starts on a stream with n P/W lines
CountStart(n, choices) ==
    /\ overflow_checks \in BOOLEAN
    /\ LET st == ParseGraphMarginals(CountSegments, FALSE)
       IN  graph_marginals = [node2id |-> st.node2id, node_len |-> st.node_len,
                              path_segments_len |-> n]
    /\ node_table = ItemTableNew(n)
    /\ subset_coords \in choices
    /\ subset_map = SubsetMapOf(subset_coords)
    /\ num_path = 0
    /\ cnt_state = "reading"
    /\ last = NoLine
    /\ pushed = [sh \in Shards |-> <<>>]
    /\ RunIdle
    /\ IndexIdle
    /\ BedIdle
    /\ GroupsIdle
    /\ ThresholdIdle
    /\ GrowthIdle
    /\ TokIdle
    /\ PassIdle

\* streams of up to MaxPathLines P/W lines
InitCount == \E n \in 0..MaxPathLines : CountStart(n, FewSubsetChoices)

\* streams of one P/W line, every subset list
InitLine == CountStart(1, SubsetChoices)

\* the number of the deposits that go to shard sh
InShard(deposits, sh) == Len(SelectSeq(deposits, LAMBDA d : d.sid % SIZE_T = sh))

\* a P or W line has been parsed: its pushes, the prefix sum, num_path += 1
Deposit(kind, seg, subset, v) ==
    LET deposits == IF kind = "P" THEN DepositsOf(v.calls) ELSE v.calls
    IN  /\ last' = LineRecord(kind, seg, subset, v)
        /\ IF v.panicked
           THEN /\ cnt_state' = "panicked"
                /\ UNCHANGED <<node_table, num_path, pushed>>
           ELSE /\ node_table' = PrefixSum(PushAll(node_table, deposits, num_path), num_path)
                /\ num_path' = num_path + 1
                /\ pushed' = [sh \in Shards |-> Append(pushed[sh], InShard(deposits, sh))]
                /\ UNCHANGED cnt_state
        /\ UNCHANGED <<overflow_checks, graph_marginals, subset_coords, subset_map>>

\* io.rs:451-483, a P line
CountReadP ==
    /\ cnt_state = "reading"
    /\ num_path < graph_marginals.path_segments_len
    /\ \E ln \in CountPLines :
          LET r == ParsePathIdentifier(ln)
              subset == SubsetFor(r.seg)
              v == ParsePathSeq(r.rest, graph_marginals, OffsetOf(r.seg), subset,
                                overflow_checks)
          IN  Deposit("P", r.seg, subset, v)
    /\ UNCHANGED notCountVars

\* io.rs:484-505, a W line
CountReadW ==
    /\ cnt_state = "reading"
    /\ num_path < graph_marginals.path_segments_len
    /\ \E ln \in CountWLines :
          LET r == ParseWalkIdentifier(ln)
              subset == SubsetFor(r.seg)
              v == ParseWalkSeq(r.rest, graph_marginals.node2id,
                                graph_marginals.node_len, OffsetOf(r.seg), subset)
          IN  Deposit("W", r.seg, subset, v)
    /\ UNCHANGED notCountVars

\* io.rs:450-507, a line that is neither P nor W
CountReadOther ==
    /\ cnt_state = "reading"
    /\ \E ln \in {CountSegments[k] : k \in DOMAIN CountSegments} \cup {HLine} :
          ln[1] # "P" /\ ln[1] # "W"
    /\ UNCHANGED <<overflow_checks, graph_marginals, subset_coords, subset_map,
                   num_path, node_table, cnt_state, last, pushed>>
    /\ UNCHANGED notCountVars

\* io.rs:450 and 509, the stream is at its end
CountReturn ==
    /\ cnt_state = "reading"
    /\ num_path = graph_marginals.path_segments_len
    /\ cnt_state' = "done"
    /\ UNCHANGED <<overflow_checks, graph_marginals, subset_coords, subset_map,
                   num_path, node_table, last, pushed>>
    /\ UNCHANGED notCountVars

NextCount ==
    \/ CountReadP
    \/ CountReadW
    \/ CountReadOther
    \/ CountReturn

SpecCount == InitCount /\ [][NextCount]_vars

SpecLine == InitLine /\ [][NextCount]_vars

(***************************************************************************)
(* io::parse_bed, one action per row of the BED file                       *)
(***************************************************************************)
\* a number below ten as a column
Num(n) == <<Digits[n + 1]>>

\* "1,2"
RECURSIVE CommaList(_)
CommaList(ns) ==
    IF Len(ns) = 1 THEN Num(ns[1])
    ELSE Num(ns[1]) \o <<",">> \o CommaList(Tail(ns))

\* chrom, chromStart, chromEnd
Bed3(name, start, end) == <<name, Num(start), Num(end)>>

\* the twelve columns of a BED12 row
Bed12(name, start, end, sizes, starts) ==
    <<name, Num(start), Num(end), <<"n">>, <<"0">>, <<"+">>, Num(start), Num(end),
      <<"0">>, Num(Len(sizes)), CommaList(sizes), CommaList(starts)>>

BedNames == {<<"p">>, <<"#", "q">>}

BlockLists == UNION {[1..n -> 1..2] : n \in 1..MaxBlocks}

BedAlphabet ==
    {<<n>> : n \in BedNames}
    \cup {<<<<"p">>, Num(1)>>}
    \cup {Bed3(n, s, 5) : n \in BedNames, s \in {0, 1}}
    \cup {Bed12(<<"p">>, s, 9, z, b) :
             s \in {0, 1}, z \in BlockLists, b \in {x \in BlockLists : Len(x) = 1}}
    \cup {Bed12(<<"p">>, 1, 9, z, <<0, 3>>) : z \in {x \in BlockLists : Len(x) = 2}}

InitBed ==
    /\ bed_file \in FilesOver(BedAlphabet, MaxBedRows)
    /\ bed_pos = 0
    /\ bed = BedStart
    /\ RunIdle
    /\ IndexIdle
    /\ CountIdle
    /\ GroupsIdle
    /\ ThresholdIdle
    /\ GrowthIdle
    /\ TokIdle
    /\ PassIdle

\* io.rs:24-74, the reader yields the next row
BedRead(n) ==
    /\ bed.state = "reading"
    /\ bed_pos < Len(bed_file)
    /\ n = Min({Len(bed_file[bed_pos + 1]), 12})
    /\ bed' = BedRow(bed, bed_file[bed_pos + 1])
    /\ bed_pos' = bed_pos + 1
    /\ UNCHANGED bed_file
    /\ UNCHANGED notBedVars

BedRead1 == BedRead(1)

BedRead2 == BedRead(2)

BedRead3 == BedRead(3)

BedRead12 == BedRead(12)

\* io.rs:24 and 77, the reader is exhausted and res is returned
BedReturn ==
    /\ bed.state = "reading"
    /\ bed_pos = Len(bed_file)
    /\ bed' = [bed EXCEPT !.state = "done"]
    /\ UNCHANGED <<bed_file, bed_pos>>
    /\ UNCHANGED notBedVars

NextBed ==
    \/ BedRead1
    \/ BedRead2
    \/ BedRead3
    \/ BedRead12
    \/ BedReturn

SpecBed == InitBed /\ [][NextBed]_vars

(***************************************************************************)
(* io::parse_groups, one action per row of the grouping file               *)
(***************************************************************************)
GroupNames == {<<"p">>, <<"q">>, <<"p", ":", "1", "-", "2">>}

GroupLabels == {<<"g">>, <<"h">>}

GroupsAlphabet ==
    {<<n, l>> : n \in GroupNames, l \in GroupLabels}
    \cup {<<n>> : n \in {<<"p">>, <<"q">>}}

InitGroups ==
    /\ grp_file \in FilesOver(GroupsAlphabet, MaxGroupRows)
    /\ grp_pos = 0
    /\ grp = GroupsStart
    /\ RunIdle
    /\ IndexIdle
    /\ CountIdle
    /\ BedIdle
    /\ ThresholdIdle
    /\ GrowthIdle
    /\ TokIdle
    /\ PassIdle

\* io.rs:90-115, the reader yields the next row
GroupsRead ==
    /\ grp.state = "reading"
    /\ grp_pos < Len(grp_file)
    /\ grp' = GroupsRow(grp, grp_file[grp_pos + 1])
    /\ grp_pos' = grp_pos + 1
    /\ UNCHANGED grp_file
    /\ UNCHANGED notGrpVars

\* io.rs:90 and 116, the reader is exhausted: Ok(res)
GroupsReturn ==
    /\ grp.state = "reading"
    /\ grp_pos = Len(grp_file)
    /\ grp' = [grp EXCEPT !.state = "done",
                          !.ret = [ok |-> TRUE, kind |-> "Ok", list |-> grp.res]]
    /\ UNCHANGED <<grp_file, grp_pos>>
    /\ UNCHANGED notGrpVars

NextGroups ==
    \/ GroupsRead
    \/ GroupsReturn

SpecGroups == InitGroups /\ [][NextGroups]_vars

(***************************************************************************)
(* cli::parse_threshold_cli, one action per element of the list            *)
(***************************************************************************)
ThresholdElements ==
    {<<"0">>, <<"1">>, <<"2">>, <<"0", ".", "5">>, <<"1", ".", "5">>, <<"-", "1">>,
     <<"x">>, <<" ", "1", " ">>, <<>>}

\* the elements joined by ','
RECURSIVE JoinComma(_)
JoinComma(els) ==
    IF Len(els) = 1 THEN els[1]
    ELSE els[1] \o <<",">> \o JoinComma(Tail(els))

ThresholdStrings ==
    {JoinComma(els) : els \in UNION {[1..n -> ThresholdElements] : n \in 1..MaxElements}}

InitThreshold ==
    /\ threshold_str \in ThresholdStrings
    /\ require \in RequireThreshold
    /\ thr = ThresholdStart
    /\ RunIdle
    /\ IndexIdle
    /\ CountIdle
    /\ BedIdle
    /\ GroupsIdle
    /\ GrowthIdle
    /\ TokIdle
    /\ PassIdle

\* cli.rs:392-434, one turn of the loop over threshold_str.split(',')
ThresholdElement ==
    /\ thr.state = "reading"
    /\ thr.i < Len(SplitOn(threshold_str, {","}))
    /\ LET el == SplitOn(threshold_str, {","})[thr.i + 1]
           r == ElementThreshold(el, require)
       IN  thr' = IF r.ok
                  THEN [thr EXCEPT !.i = @ + 1, !.thresholds = Append(@, r.t)]
                  ELSE [thr EXCEPT !.state = "done",
                                   !.ret = [ok |-> FALSE, kind |-> "InvalidData",
                                            list |-> <<>>]]
    /\ UNCHANGED <<threshold_str, require>>
    /\ UNCHANGED notThrVars

\* cli.rs:436, Ok(thresholds)
ThresholdReturn ==
    /\ thr.state = "reading"
    /\ thr.i = Len(SplitOn(threshold_str, {","}))
    /\ thr' = [thr EXCEPT !.state = "done",
                          !.ret = [ok |-> TRUE, kind |-> "Ok", list |-> thr.thresholds]]
    /\ UNCHANGED <<threshold_str, require>>
    /\ UNCHANGED notThrVars

NextThreshold ==
    \/ ThresholdElement
    \/ ThresholdReturn

SpecThreshold == InitThreshold /\ [][NextThreshold]_vars

(***************************************************************************)
(* cli::run, the growth table: one action per evaluation of a pair, then   *)
(* the collect, then the write                                             *)
(***************************************************************************)
\* coverage thresholds, and quorum thresholds in tenths
CoverageValues == {1, 2}

QuorumValues == {0, 5}

InitGrowth ==
    /\ \E k \in 1..MaxPairs :
          hist_aux \in [coverage : [1..k -> CoverageValues],
                        quorum : [1..k -> QuorumValues]]
    /\ \E n \in 1..MaxGrowthGroups : growth = GrowthStart(n)
    /\ RunIdle
    /\ IndexIdle
    /\ CountIdle
    /\ BedIdle
    /\ GroupsIdle
    /\ ThresholdIdle
    /\ TokIdle
    /\ PassIdle

\* cli.rs:652-669, a worker ends the evaluation of pair j
GrowthEval ==
    /\ growth.state = "mapping"
    /\ \E j \in DOMAIN hist_aux.coverage \ DOMAIN growth.results :
          growth' = [growth EXCEPT
                        !.results = [x \in DOMAIN @ \cup {j} |->
                                        IF x = j
                                        THEN CalcGrowth(hist_aux.coverage[j],
                                                        hist_aux.quorum[j], growth.groups)
                                        ELSE @[x]],
                        !.finished = Append(@, j)]
    /\ UNCHANGED hist_aux
    /\ UNCHANGED notGrowthVars

\* cli.rs:670, every pair is evaluated: growths is collected
GrowthCollect ==
    /\ growth.state = "mapping"
    /\ DOMAIN growth.results = DOMAIN hist_aux.coverage
    /\ growth' = [growth EXCEPT !.state = "collected",
                                !.growths = Collect(growth.results, growth.finished)]
    /\ UNCHANGED hist_aux
    /\ UNCHANGED notGrowthVars

\* cli.rs:672-704, the header lines and the rows of the table
GrowthWrite ==
    /\ growth.state = "collected"
    /\ LET n == Len(growth.growths[1])
       IN  growth' = [growth EXCEPT
                         !.state = "written",
                         !.rows = [i \in 1..n |->
                                      GrowthRow(growth.growths, Len(hist_aux.quorum), i)]]
    /\ UNCHANGED hist_aux
    /\ UNCHANGED notGrowthVars

NextGrowth ==
    \/ GrowthEval
    \/ GrowthCollect
    \/ GrowthWrite

SpecGrowth == InitGrowth /\ [][NextGrowth]_vars

(***************************************************************************)
(* The tokenisation: one action per piece a worker ends, then the collect, *)
(* then one action per turn of the offset walk                             *)
(***************************************************************************)
\* node2id and node_len of the graph of CountSegments
TokGraph == ParseGraphMarginals(CountSegments, FALSE)

InitTok ==
    /\ \E kind \in {"P", "W"}, names \in TokenSeqs, o \in Offsets :
          tok = TokStart(kind, names,
                         IF kind = "P" THEN PathBody(names) \o <<TAB, "*", LF>>
                         ELSE WalkBody(names) \o <<LF>>,
                         o)
    /\ RunIdle
    /\ IndexIdle
    /\ CountIdle
    /\ BedIdle
    /\ GroupsIdle
    /\ ThresholdIdle
    /\ GrowthIdle
    /\ PassIdle

\* io.rs:359-376 and 203-210, a worker ends the closure on piece k
TokMap ==
    /\ tok.state = "mapping"
    /\ \E k \in DOMAIN BodyPieces(tok.kind, tok.data) \ DOMAIN tok.results :
          tok' = [tok EXCEPT
                     !.results = [x \in DOMAIN @ \cup {k} |->
                                     IF x = k
                                     THEN PieceId(tok.kind,
                                                  BodyPieces(tok.kind, tok.data)[k],
                                                  TokGraph.node2id)
                                     ELSE @[x]],
                     !.finished = Append(@, k)]
    /\ UNCHANGED notTokVars

\* io.rs:378 and 211, every closure has ended: sids is collected
TokCollect ==
    /\ tok.state = "mapping"
    /\ DOMAIN tok.results = DOMAIN BodyPieces(tok.kind, tok.data)
    /\ tok' = [tok EXCEPT !.state = "walking",
                          !.sids = Gather(tok.results, tok.finished)]
    /\ UNCHANGED notTokVars

\* io.rs:383-409 and 217-232, one turn of for sid in sids: p += l
TokWalk ==
    /\ tok.state = "walking"
    /\ tok.k < Len(tok.sids)
    /\ tok' = [tok EXCEPT !.k = @ + 1,
                          !.p = @ + TokGraph.node_len[tok.sids[tok.k + 1] + 1]]
    /\ UNCHANGED notTokVars

\* io.rs:410 and 232, the loop over sids ends
TokDone ==
    /\ tok.state = "walking"
    /\ tok.k = Len(tok.sids)
    /\ tok' = [tok EXCEPT !.state = "done"]
    /\ UNCHANGED notTokVars

NextTok ==
    \/ TokMap
    \/ TokCollect
    \/ TokWalk
    \/ TokDone

SpecTok == InitTok /\ [][NextTok]_vars

(***************************************************************************)
(* Both passes over one file: parse_graph_marginals, then                  *)
(* parse_gfa_nodecount with the GraphData of the first pass                *)
(***************************************************************************)
\* the P, W and header lines of the files of SpecPass
PassAlphabet ==
    {PLine(PathName(0), PathBody(<<<<"a">>, <<"b", "c">>>>)),
     PLine(PathName(1), PathBody(<<<<"a">>>>)),
     WLine(<<"s">>, <<"1">>, <<"c">>, <<"*">>, <<"*">>,
           WalkBody(<<<<"b", "c">>, <<"a">>>>)),
     HLine}

\* the S lines of CountSegments, then up to MaxPassLines lines
PassFiles == {CountSegments \o f : f \in FilesOver(PassAlphabet, MaxPassLines)}

InitPass ==
    /\ file \in PassFiles
    /\ index_edges \in BOOLEAN
    /\ idx_pos = 0
    /\ idx = IndexStart
    /\ overflow_checks \in BOOLEAN
    /\ subset_coords \in FewSubsetChoices
    /\ graph_marginals = [node2id |-> <<>>, node_len |-> <<>>, path_segments_len |-> 0]
    /\ subset_map = <<>>
    /\ num_path = 0
    /\ node_table = ItemTableNew(0)
    /\ cnt_state = "idle"
    /\ last = NoLine
    /\ pushed = [sh \in Shards |-> <<>>]
    /\ cnt_pos = 0
    /\ RunIdle
    /\ BedIdle
    /\ GroupsIdle
    /\ ThresholdIdle
    /\ GrowthIdle
    /\ TokIdle

\* io.rs:434-449, the second pass starts with the GraphData of the first
PassStart ==
    /\ idx.state = "done"
    /\ cnt_state = "idle"
    /\ graph_marginals' = [node2id |-> idx.node2id, node_len |-> idx.node_len,
                           path_segments_len |-> Len(idx.path_segments)]
    /\ node_table' = ItemTableNew(Len(idx.path_segments))
    /\ subset_map' = SubsetMapOf(subset_coords)
    /\ cnt_state' = "reading"
    /\ UNCHANGED <<overflow_checks, subset_coords, num_path, last, pushed, cnt_pos>>
    /\ UNCHANGED notPassVars

\* the line is parsed and deposited, unless row num_path + 1 lies outside
\* the id_prefsum vectors (an index out of bounds)
PassDeposit(kind, seg, subset, v) ==
    IF ~v.panicked /\ num_path >= graph_marginals.path_segments_len
    THEN /\ cnt_state' = "out_of_bounds"
         /\ UNCHANGED <<overflow_checks, graph_marginals, subset_coords, subset_map,
                        num_path, node_table, last, pushed>>
    ELSE Deposit(kind, seg, subset, v)

\* io.rs:451-483, the next line of file is a P line
PassReadP ==
    /\ cnt_state = "reading"
    /\ cnt_pos < Len(file)
    /\ file[cnt_pos + 1][1] = "P"
    /\ LET r == ParsePathIdentifier(file[cnt_pos + 1])
           subset == SubsetFor(r.seg)
           v == ParsePathSeq(r.rest, graph_marginals, OffsetOf(r.seg), subset,
                             overflow_checks)
       IN  PassDeposit("P", r.seg, subset, v)
    /\ cnt_pos' = cnt_pos + 1
    /\ UNCHANGED notPassVars

\* io.rs:484-505, the next line of file is a W line
PassReadW ==
    /\ cnt_state = "reading"
    /\ cnt_pos < Len(file)
    /\ file[cnt_pos + 1][1] = "W"
    /\ LET r == ParseWalkIdentifier(file[cnt_pos + 1])
           subset == SubsetFor(r.seg)
           v == ParseWalkSeq(r.rest, graph_marginals.node2id,
                             graph_marginals.node_len, OffsetOf(r.seg), subset)
       IN  PassDeposit("W", r.seg, subset, v)
    /\ cnt_pos' = cnt_pos + 1
    /\ UNCHANGED notPassVars

\* io.rs:450-507, the next line of file is neither P nor W
PassReadOther ==
    /\ cnt_state = "reading"
    /\ cnt_pos < Len(file)
    /\ file[cnt_pos + 1][1] \notin {"P", "W"}
    /\ cnt_pos' = cnt_pos + 1
    /\ UNCHANGED countVars
    /\ UNCHANGED notPassVars

\* io.rs:450 and 509, read_until returns 0 and node_table is returned
PassReturn ==
    /\ cnt_state = "reading"
    /\ cnt_pos = Len(file)
    /\ cnt_state' = "done"
    /\ UNCHANGED <<overflow_checks, graph_marginals, subset_coords, subset_map,
                   num_path, node_table, last, pushed, cnt_pos>>
    /\ UNCHANGED notPassVars

NextPass ==
    \/ IndexReadS
    \/ IndexReadP
    \/ IndexReadW
    \/ IndexReadOther
    \/ IndexReturn
    \/ PassStart
    \/ PassReadP
    \/ PassReadW
    \/ PassReadOther
    \/ PassReturn

SpecPass == InitPass /\ [][NextPass]_vars

(***************************************************************************)
(* Properties of cli::run (checked under SpecRun)                          *)
(***************************************************************************)
Range(f) == {f[i] : i \in DOMAIN f}

MoreThanOneGrouping ==
    \/ params.groupby /\ params.groupby_haplotype
    \/ params.groupby /\ params.groupby_sample
    \/ params.groupby_haplotype /\ params.groupby_sample

\* C1: for histgrowth, hist, ordered-histgrowth and table, when more than one
\* of groupby, groupby_haplotype, groupby_sample is set, run ends with
\* InvalidInput, and no file has been opened and nothing written at any point.
C1_ConflictingGroupingFailsEarly ==
    (params.cmd \in GfaCommands /\ MoreThanOneGrouping)
        => /\ opened = <<>>
           /\ out = <<>>
           /\ events = <<>>
           /\ pc = "done" => result = "InvalidInput"
           /\ pc \in {"threads", "groupby", "done"}

C1_Witness ==
    /\ params.cmd \in GfaCommands
    /\ params.groupby /\ params.groupby_sample /\ ~params.groupby_haplotype
    /\ pc = "done"
    /\ result = "InvalidInput"

\* C2: when the indexer pass returned an empty path_segments, run has
\* returned Ok, has written nothing, and no phase after the indexer has run.
C2_EmptyPathSegmentsReturnsOk ==
    path_count = 0
        => /\ pc = "done"
           /\ result = "Ok"
           /\ out = <<>>
           /\ events = <<"index">>
           /\ opened = <<"gfa">>

C2_Witness ==
    /\ path_count = 0
    /\ pc = "done"
    /\ result = "Ok"

\* C3 as stated: for a GFA with S lines only, a successful run has written
\* exactly the invocation comment line.
C3_EmptyGraphPrintsComment ==
    (params.cmd \in GfaCommands /\ gfa.s > 0 /\ gfa.pw = 0
     /\ pc = "done" /\ result = "Ok")
        => out = <<Line("comment", 1)>>

\* C3 as amended: for a GFA with S lines only, a run that indexed the file
\* succeeds and the output stays empty: the comment line is not written either.
C3_EmptyGraphPrintsNothing ==
    (params.cmd \in GfaCommands /\ gfa.s > 0 /\ gfa.pw = 0)
        => /\ \A i \in DOMAIN out : out[i].kind # "comment"
           /\ Len(out) = 0
           /\ (pc = "done" /\ "index" \in Range(events) /\ path_count # NotIndexed)
                  => result = "Ok"

C3_Witness ==
    /\ params.cmd \in GfaCommands
    /\ gfa.s > 0 /\ gfa.pw = 0
    /\ pc = "done"
    /\ result = "Ok"
    /\ "index" \in Range(events)

\* C4 as stated: whenever the resolved number of groups exceeds 65534, run
\* ends with Unsupported and the second pass has not started, for every
\* subcommand that builds an abacus.
C4_GroupCeilingEverySubcommand ==
    (params.cmd \in GfaCommands /\ n_groups > 65534)
        => /\ "second_pass" \notin Range(events)
           /\ pc = "done" => result = "Unsupported"

(***************************************************************************)
(* Properties of io::parse_graph_marginals (checked under SpecIndex)       *)
(***************************************************************************)
\* the S lines among the lines read so far
SLinesRead == {i \in 1..idx_pos : file[i][1] = "S"}

\* the segment name of an S line: its second tab-delimited field
SegmentName(buf) == Slice(buf, 2, FindAt(buf, 2, {TAB}))

\* the S line on which a name occurs first
FirstOccurrence(name) == Min({i \in SLinesRead : SegmentName(file[i]) = name})

\* the number of S lines before line i
SLinesBefore(i) == Cardinality({j \in SLinesRead : j < i})

\* C9 as stated: after the indexer pass the node ids of node2id are exactly
\* 0..N-1, N the number of distinct segment names, also when names repeat.
C9_NodeIdsDense ==
    idx.state = "done"
        => {idx.node2id[k] : k \in DOMAIN idx.node2id}
               = 0..(Cardinality({SegmentName(file[i]) : i \in SLinesRead}) - 1)

\* C10: every segment name read so far is mapped to the id it received on the
\* S line of its first occurrence (the number of S lines before that line);
\* a later S line with the same name does not change it.
C10_DuplicateKeepsFirstId ==
    idx.state # "panicked"
        => \A i \in SLinesRead :
              /\ SegmentName(file[i]) \in DOMAIN idx.node2id
              /\ idx.node2id[SegmentName(file[i])]
                     = SLinesBefore(FirstOccurrence(SegmentName(file[i])))

C10_Witness ==
    /\ idx.state = "done"
    /\ \E i, j \in SLinesRead :
          /\ i < j
          /\ SegmentName(file[i]) = SegmentName(file[j])
          /\ SLinesBefore(i) > 0
          /\ idx.node2id[SegmentName(file[j])] = SLinesBefore(i)

(***************************************************************************)
(* Properties of io::parse_gfa_nodecount (checked under SpecLine and       *)
(* SpecCount)                                                              *)
(***************************************************************************)
\* the node ids of sids that fall into shard sh, in order
ShardOf(sids, sh) == SelectSeq(sids, LAMBDA x : x % SIZE_T = sh)

\* the node of visit d lies inside the interval it was tested against
Contained(d) == d.s <= d.p /\ d.p + d.l <= d.e

\* C5: after a stream of one P or W line, when a subset is in effect and the
\* path is absent from subset_map the ItemTable holds no item; when no subset
\* was requested the line was parsed against [(0, usize::MAX)] and the table
\* holds every token of its body, in order.
C5_AbsentExcludedUnsubsetComplete ==
    (cnt_state = "done" /\ last.kind \in {"P", "W"})
        => /\ (subset_coords.some /\ ~last.listed)
                  => \A sh \in Shards : node_table.items[sh] = <<>>
           /\ ~subset_coords.some
                  => /\ last.subset = <<<<0, UsizeMax>>>>
                     /\ \A sh \in Shards :
                           node_table.items[sh] = ShardOf(last.sids, sh)

C5_Witness ==
    /\ cnt_state = "done"
    /\ last.kind = "W"
    /\ subset_coords.some
    /\ ~last.listed
    /\ Len(last.sids) > 1
    /\ \A sh \in Shards : node_table.items[sh] = <<>>

\* C6 as stated: every node a P line deposits lies fully inside the subset
\* interval it was tested against: start <= p and p + l <= end.
C6_PathDepositsFullyContained ==
    (last.kind = "P" /\ cnt_state # "panicked")
        => \A k \in DOMAIN last.deposits : Contained(last.deposits[k])

\* C7 as stated: every node a W line deposits lies fully inside the subset
\* interval it was tested against: start <= p and p + l <= end.
C7_WalkDepositsFullyContained ==
    (last.kind = "W" /\ cnt_state # "panicked")
        => \A k \in DOMAIN last.deposits : Contained(last.deposits[k])

\* C8: for every shard and every processed path index p the difference
\* id_prefsum[p+1] - id_prefsum[p] is the number of items path p pushed to
\* the shard, and id_prefsum at the number of processed paths is the length
\* of the shard's items; also after a P line that stopped by break.
C8_PrefixSumCountsItems ==
    cnt_state # "panicked"
        => \A sh \in Shards :
              /\ \A p \in 0..(num_path - 1) :
                    node_table.id_prefsum[sh][p + 1 + 1] - node_table.id_prefsum[sh][p + 1]
                        = pushed[sh][p + 1]
              /\ node_table.id_prefsum[sh][num_path + 1] = Len(node_table.items[sh])

C8_Witness ==
    /\ cnt_state = "done"
    /\ num_path = MaxPathLines
    /\ last.kind = "P"
    /\ last.broke
    /\ last.deposits # <<>>
    /\ \E sh \in Shards : pushed[sh][1] > 0 /\ pushed[sh][num_path] > 0

(***************************************************************************)
(* Properties of the L lines of io::parse_graph_marginals (SpecIndex)      *)
(***************************************************************************)
\* the n-th tab-delimited field of a line, n counted from 0
RECURSIVE Field(_, _)
Field(buf, n) ==
    LET t == FindAt(buf, 0, {TAB, LF})
        stop == IF t = -1 THEN Len(buf) ELSE t
    IN  IF n = 0 THEN Slice(buf, 0, stop)
        ELSE Field(Slice(buf, stop + 1, Len(buf)), n - 1)

\* '+' is '>', '-' is '<'
Oriented(o) == IF o = <<"+">> THEN ">" ELSE "<"

\* the key o1 . src . o2 . dst of an L line
CanonicalEdgeKey(buf) ==
    <<Oriented(Field(buf, 2))>> \o Field(buf, 1)
    \o <<Oriented(Field(buf, 4))>> \o Field(buf, 3)

\* the L lines among the lines read so far
LLinesRead == {i \in 1..idx_pos : file[i][1] = "L"}

\* C11 as stated: while edges are indexed, every L line read so far has its
\* key o1 . src . o2 . dst in edge2id.
C11_EdgeKeyIsOrientedPair ==
    (index_edges /\ idx.state # "panicked")
        => \A i \in LLinesRead : CanonicalEdgeKey(file[i]) \in DOMAIN idx.edge2id

(***************************************************************************)
(* Properties of io::parse_bed (checked under SpecBed)                     *)
(***************************************************************************)
\* the rows read so far that are not skipped as header rows
BedDataRows ==
    {i \in 1..bed_pos :
        ~(IsBedHeader(bed_file[i][1])
          /\ \A j \in 1..(i - 1) : IsBedHeader(bed_file[j][1]))}

\* the k-th block of a 12-column row as BED12 defines it:
\* [S + b_k, S + b_k + z_k) on the row's path
Bed12Block(row, k) ==
    LET start == DecimalValue(row[2])
        z == DecimalValue(SplitOn(row[11], {","})[k])
        b == DecimalValue(SplitOn(row[12], {","})[k])
    IN  PathSegment(row[1], start + b, start + b + z)

\* C12 as stated: a 12-column row with blockCount n pushes exactly n
\* PathSegments, the k-th being [S + b_k, S + b_k + z_k).
C12_Bed12BlocksRelativeToStart ==
    bed.state # "panicked"
        => \A i \in BedDataRows :
              Len(bed_file[i]) = 12
                  => bed.added[i]
                         = [k \in 1..DecimalValue(bed_file[i][10]) |->
                               Bed12Block(bed_file[i], k)]

\* C13 as stated: whatever rows precede it, a 3-column row pushes exactly the
\* interval [start, end) on its path and a 12-column row pushes one segment
\* per block.
C13_BedRowsByOwnColumnCount ==
    bed.state # "panicked"
        => \A i \in BedDataRows :
              /\ Len(bed_file[i]) = 3
                    => bed.added[i]
                           = <<PathSegment(bed_file[i][1], DecimalValue(bed_file[i][2]),
                                           DecimalValue(bed_file[i][3]))>>
              /\ Len(bed_file[i]) = 12
                    => Len(bed.added[i]) = DecimalValue(bed_file[i][10])

(***************************************************************************)
(* Properties of io::parse_groups (checked under SpecGroups)               *)
(***************************************************************************)
\* the path segment of row i of the grouping file
GroupRowSeg(i) == PathSegmentFromStr(grp_file[i][1])

\* row i names a path segment that an earlier row named
Reassigned(i) == \E j \in 1..(i - 1) : PathSegmentEq(GroupRowSeg(j), GroupRowSeg(i))

\* C14: when parse_groups has returned and some row names a path segment an
\* earlier row named, it returned an InvalidData error with no list, having
\* read up to the first such row; otherwise it returned one (path segment,
\* label) pair per row, in file order.
C14_ReassignedPathRejected ==
    grp.state = "done"
        => IF \E i \in DOMAIN grp_file : Reassigned(i)
           THEN /\ ~grp.ret.ok
                /\ grp.ret.kind = "InvalidData"
                /\ grp.ret.list = <<>>
                /\ grp_pos = Min({i \in DOMAIN grp_file : Reassigned(i)})
           ELSE /\ grp.ret.ok
                /\ grp.ret.list
                       = [i \in DOMAIN grp_file |-> <<GroupRowSeg(i), grp_file[i][2]>>]

C14_Witness ==
    /\ grp.state = "done"
    /\ ~grp.ret.ok
    /\ Len(grp_file) = MaxGroupRows
    /\ grp_pos = 2
    /\ Len(grp.res) = 1
    /\ Len(grp_file[2]) >= 2
    /\ grp_file[1][2] # grp_file[2][2]

(***************************************************************************)
(* Properties of cli::parse_threshold_cli (checked under SpecThreshold)    *)
(***************************************************************************)
\* the elements of the list
Elements == SplitOn(threshold_str, {","})

\* el is a float in [0, 1]
IsUnitFloat(el) ==
    LET t == F64FromStr(Trim(el)) IN t.ok /\ 0 <= t.v /\ t.v <= 10

\* el is a non-negative integer
IsCount(el) == UsizeFromStr(Trim(el)).ok

\* C15: when parse_threshold_cli has returned, in Relative mode it returned
\* Ok iff every element is a float in [0,1], in Absolute mode iff every
\* element is a non-negative integer; Ok carries one Threshold of the mode's
\* kind per element, with the element's value, in list order; an error
\* carries no thresholds.
C15_ThresholdListAcceptedIffValid ==
    (thr.state = "done" /\ require \in {"Relative", "Absolute"})
        => /\ require = "Relative"
                 => (thr.ret.ok <=> \A k \in DOMAIN Elements : IsUnitFloat(Elements[k]))
           /\ require = "Absolute"
                 => (thr.ret.ok <=> \A k \in DOMAIN Elements : IsCount(Elements[k]))
           /\ thr.ret.ok
                 => /\ Len(thr.ret.list) = Len(Elements)
                    /\ \A k \in DOMAIN Elements :
                          /\ thr.ret.list[k].kind = require
                          /\ thr.ret.list[k].v
                                 = IF require = "Absolute"
                                   THEN UsizeFromStr(Trim(Elements[k])).v
                                   ELSE F64FromStr(Trim(Elements[k])).v
           /\ ~thr.ret.ok => thr.ret.list = <<>> /\ thr.ret.kind = "InvalidData"

C15_Witness ==
    /\ thr.state = "done"
    /\ require = "Absolute"
    /\ ~thr.ret.ok
    /\ Len(Elements) = MaxElements
    /\ thr.i = 1
    /\ IsUnitFloat(Elements[2])
    /\ ~IsCount(Elements[2])

(***************************************************************************)
(* Properties of the passes on an unterminated stream (SpecIndex)          *)
(***************************************************************************)
\* the last line of the stream does not end in a newline
LastLineUnterminated ==
    /\ Len(file) > 0
    /\ file[Len(file)][Len(file[Len(file)])] # LF

\* C16 as stated: on a stream whose last line is not terminated the indexer
\* pass does not fail, whatever the record type of that line.
C16_UnterminatedStreamTolerated ==
    LastLineUnterminated => idx.state # "panicked"

(***************************************************************************)
(* Properties of the growth table of cli::run (checked under SpecGrowth)   *)
(***************************************************************************)
\* C17: in the table written, whatever the order in which the evaluations of
\* the pairs ended, there is one row per group, every row has one value per
\* pair, and column j of the row of group i is the floored growth value of
\* pair j for group i.
C17_GrowthColumnsFollowPairs ==
    growth.state = "written"
        => /\ Len(growth.rows) = growth.groups
           /\ \A i \in DOMAIN growth.rows :
                 /\ growth.rows[i].label = i
                 /\ Len(growth.rows[i].values) = Len(hist_aux.coverage)
                 /\ \A j \in DOMAIN hist_aux.coverage :
                       growth.rows[i].values[j]
                           = Floor(CalcGrowth(hist_aux.coverage[j], hist_aux.quorum[j],
                                              growth.groups)[i])

C17_Witness ==
    /\ growth.state = "written"
    /\ Len(hist_aux.coverage) = MaxPairs
    /\ growth.finished[1] = MaxPairs
    /\ growth.groups = MaxGrowthGroups
    /\ growth.rows[1].values[1] # growth.rows[1].values[MaxPairs]

(***************************************************************************)
(* Properties of the uncovered base pairs of io::parse_path_seq (SpecLine) *)
(***************************************************************************)
\* C18 as stated: with wrapping usize arithmetic, every call of match_f on a
\* P line passes an uncovered value in [0, l], and the value is 0 exactly
\* when the node lies fully inside the current subset interval.
C18_UncoveredWithinNodeLength ==
    (last.kind = "P" /\ ~overflow_checks)
        => \A k \in DOMAIN last.calls :
              /\ 0 <= last.calls[k].uncovered
              /\ last.calls[k].uncovered <= last.calls[k].l
              /\ last.calls[k].uncovered = 0 <=> Contained(last.calls[k])

(***************************************************************************)
(* Properties of the tokenisation (checked under SpecTok)                  *)
(***************************************************************************)
\* the number of '<' and '>' in the walk body
WalkDelimiters ==
    Cardinality({i \in DOMAIN tok.data : tok.data[i] \in {"<", ">"}})

\* C19: once sids is collected it holds the id of every token of the body in
\* the order of the tokens, whatever the order in which the workers ended;
\* the offset walk has moved only if sids is collected in full; for a walk
\* the number of ids is the number of delimiters of the body.
C19_TokensGatheredInBodyOrder ==
    /\ tok.state \in {"walking", "done"}
          => /\ tok.sids = [k \in DOMAIN tok.names |-> TokGraph.node2id[tok.names[k]]]
             /\ tok.kind = "W" => Len(tok.sids) = WalkDelimiters
    /\ (tok.k > 0 \/ tok.p # tok.offset)
          => /\ tok.state \in {"walking", "done"}
             /\ Len(tok.sids) = Len(tok.names)
             /\ Len(tok.finished) = Len(tok.names)

C19_Witness ==
    /\ tok.state = "done"
    /\ tok.kind = "W"
    /\ Len(tok.names) = MaxTokens
    /\ tok.finished[1] = MaxTokens
    /\ tok.sids[1] # tok.sids[MaxTokens]
    /\ tok.p > tok.offset

(***************************************************************************)
(* Properties of the two passes over one file (checked under SpecPass)     *)
(***************************************************************************)
\* the number of P and W lines among the first n lines of file
PathLinesUpTo(n) == Cardinality({i \in 1..n : file[i][1] \in {"P", "W"}})

\* what holds of num_path and the id_prefsum vectors between two lines
PassRowsInStep ==
    /\ cnt_state # "out_of_bounds"
    /\ cnt_state \in {"reading", "done"}
          => /\ num_path = PathLinesUpTo(cnt_pos)
             /\ num_path <= Len(idx.path_segments)
             /\ \A sh \in Shards :
                   /\ Len(node_table.id_prefsum[sh]) = Len(idx.path_segments) + 1
                   /\ \A r \in (num_path + 1)..Len(idx.path_segments) :
                         node_table.id_prefsum[sh][r + 1] = 0
                   /\ \A k \in 0..(num_path - 1) :
                         node_table.id_prefsum[sh][k + 1 + 1]
                             = node_table.id_prefsum[sh][k + 1] + pushed[sh][k + 1]
    /\ cnt_state = "done" => num_path = Len(idx.path_segments)

\* what one line of the second pass changes: a P or W line that is parsed
\* advances num_path by one and writes row num_path + 1 only, any other
\* line leaves num_path and every row alone
PassLineWritesOwnRow ==
    (cnt_state = "reading" /\ cnt_state' = "reading" /\ cnt_pos' = cnt_pos + 1)
        => /\ num_path' = IF file[cnt_pos + 1][1] \in {"P", "W"}
                          THEN num_path + 1 ELSE num_path
           /\ \A sh \in Shards :
                 \A r \in 0..Len(idx.path_segments) :
                    (r # num_path + 1 \/ num_path' = num_path)
                       => node_table'.id_prefsum[sh][r + 1]
                              = node_table.id_prefsum[sh][r + 1]

\* C20: while the second pass runs over the file the first pass indexed,
\* num_path is the number of P/W lines read so far, each P or W line
\* increments it exactly once and writes only row num_path + 1 of every
\* shard's id_prefsum vector, on top of the finished rows of the lines
\* before it, no line indexes a row outside the table allocated for
\* path_segments.len() paths, and at the end num_path equals
\* path_segments.len().
C20_PathLinesOneRowEach == []PassRowsInStep /\ [][PassLineWritesOwnRow]_vars

C20_Witness ==
    /\ cnt_state = "done"
    /\ num_path = MaxPassLines
    /\ Len(file) = Len(CountSegments) + MaxPassLines
    /\ \E i, j \in DOMAIN file : file[i][1] = "P" /\ file[j][1] = "W"
    /\ \E sh \in Shards : node_table.id_prefsum[sh][num_path + 1] > 1

(***************************************************************************)
(* Ordering of the output of cli::run (checked under SpecRun)              *)
(***************************************************************************)
\* phase e of run has completed
Completed(e) == \E i \in DOMAIN events : events[i] = e

\* every phase the subcommand has before its output has succeeded
PhasesSucceeded ==
    /\ params.cmd \in GfaCommands
          => /\ Completed("index")
             /\ Completed("resolve")
             /\ Completed("second_pass")
             /\ Completed("abacus_total") \/ Completed("abacus_group")
    /\ params.cmd \in {"Histgrowth", "Hist", "Growth"} => Completed("hist")

\* nothing is in the sink before the comment line, and the comment line is
\* in it only once every earlier phase has succeeded
CommentAfterPhases ==
    out # <<>>
        => /\ out[1] = Line("comment", 1)
           /\ pc \in {"output", "done"}
           /\ PhasesSucceeded

\* a step in which run returns an error: from a phase before the comment
\* line it leaves the sink empty, from the output phase it leaves the
\* comment line and nothing else
ErrorLeavesSink ==
    (pc # "done" /\ pc' = "done" /\ result' # "Ok")
        => IF pc = "output"
           THEN out' = <<Line("comment", 1)>>
           ELSE out' = <<>>

\* C21: run writes the invocation comment line as its first output and only
\* after indexing, auxiliary resolution, abacus construction and histogram
\* construction or loading have succeeded; an error returned by one of those
\* phases leaves the sink empty, and an error returned afterwards by
\* HistAuxilliary::from_params leaves exactly the comment line in it.
C21_CommentLineAfterAllPhases == []CommentAfterPhases /\ [][ErrorLeavesSink]_vars

C21_Witness ==
    /\ pc = "done"
    /\ result = "InvalidData"
    /\ params.cmd = "Histgrowth"
    /\ PhasesSucceeded
    /\ out = <<Line("comment", 1)>>
====
